---- MODULE Spec2Model ----
(***************************************************************************)
(* Model of cdpcli/extensions/df/createdeployment.py: the saga that        *)
(* CreateDeploymentOperationCaller.invoke runs for `df create-deployment`. *)
(* One run of invoke is one behaviour.  The run is suspended only at its   *)
(* remote calls, so there is one action per remote call (with the local    *)
(* code that follows it up to the next call) and one per local pass.       *)
(***************************************************************************)
EXTENDS Integers, Sequences, FiniteSets, TLC

VARIABLES
    pc,                         \* position of the run inside invoke
    parameters,                 \* the request (mutated in place by the run)
    deployment_request_crn,     \* Option: handle returned by initiateDeployment
    environment_crn,            \* Option: result of _get_environment_crn
    deployment_configuration,   \* dict built by _get_deployment_configuration
    custom_nar_configuration,   \* Option: result of _process_custom_nar_configuration
    updated_asset_references,   \* list under construction in the upload pass
    pos,                        \* <<group, parameter>> the upload pass is at
    pending,                    \* exception caught by a handler, to be re-raised
    raised,                     \* exception that reached the caller of invoke
    response,                   \* Option: what invoke displays on success
    calls,                      \* history: the remote calls issued, in order
    log,                        \* history: LOG.error records
    request,                    \* history: the request as invoke received it
    default_configuration       \* Option: what getDefaultCustomNarConfiguration returned

vars == <<pc, parameters, deployment_request_crn, environment_crn,
          deployment_configuration, custom_nar_configuration,
          updated_asset_references, pos, pending, raised, response, calls, log,
          request, default_configuration>>

(***************************************************************************)
(* Python values.  None is the empty tuple and a present value v is <<v>>, *)
(* so that "x is not None" and dict.get(key, None) keep their meaning.     *)
(***************************************************************************)
None == <<>>
Some(v) == <<v>>
IsNone(x) == x = <<>>
Val(x) == x[1]

\* A dict is a function from its keys; d[k] = v is Put, del d[k] is Del.
EmptyDict == [k \in {} |-> TRUE]
Put(d, k, v) == (k :> v) @@ d
\* mutant: del leaves the key in place
Del_Noop(d, k) == d
Del(d, k) == [x \in (DOMAIN d) \ {k} |-> d[x]]
Has(d, k) == k \in DOMAIN d

(***************************************************************************)
(* Module constants.                                                       *)
(***************************************************************************)
MAX_ASSET_SIZE == 150 * 1024 * 1024
INITIAL_CONFIGURATION_VERSION == 0
INITIAL_ASSET_VERSION == "0"
SERVICE_NAME == "df"

(***************************************************************************)
(* Bounds.                                                                 *)
(***************************************************************************)
MaxAssets == 2          \* longest assetReferences list of one parameter

(***************************************************************************)
(* Exceptions.  ClientError carries http_status_code; DfExtensionError and *)
(* OSError carry none (status 0).  op is the operation that failed.        *)
(***************************************************************************)
NoError == [class |-> "none", status |-> 0, op |-> ""]
ClientError(status, op) == [class |-> "ClientError", status |-> status, op |-> op]
DfExtensionError(op) == [class |-> "DfExtensionError", status |-> 0, op |-> op]
OSError(op) == [class |-> "OSError", status |-> 0, op |-> op]
\* d[key] on a dict without key; op is the missing key
KeyError(key) == [class |-> "KeyError", status |-> 0, op |-> key]

\* Status codes a failed remote call is modelled to carry: a redirect below
\* 400, the 409 conflict and a server error.
Statuses == {302, 409, 500}

\* Outcome of client.make_api_call(op, payload): the response is returned, or
\* ClientError is raised with one of the status codes.
Ok == NoError
ApiOutcomes(op) == {Ok} \cup {ClientError(s, op) : s \in Statuses}

\* one entry of the call history: the operation, its payload, how it ended
Call(op, payload, outcome) == [op |-> op, payload |-> payload, outcome |-> outcome]

(***************************************************************************)
(* dict.get and Python truthiness.                                         *)
(***************************************************************************)
Get(d, k) == IF k \in DOMAIN d THEN Some(d[k]) ELSE None
GetOr(d, k, default) == IF k \in DOMAIN d THEN d[k] ELSE default
\* mutant: a bound counts as soon as it is supplied, zero included
TruthyInt_Present(x) == ~IsNone(x)
TruthyInt(x) == ~IsNone(x) /\ Val(x) # 0
TruthyBool(x) == ~IsNone(x) /\ Val(x)
TruthySeq(x) == ~IsNone(x) /\ Val(x) # <<>>
TruthyDict(x) == ~IsNone(x) /\ DOMAIN Val(x) # {}

(***************************************************************************)
(* Local files.  A path is the sequence of its components.  os.stat takes  *)
(* the path literally (no "~" expansion): PathHome, a file of the home     *)
(* directory, is not found, and PathLimit is found in a directory of the   *)
(* working directory that is itself named "~".                             *)
(***************************************************************************)
PathHome == <<"~", "a.nar">>
PathSmall == <<"/", "opt", "a.nar">>
PathLimit == <<"~", "b.jar">>
PathLarge == <<"data", "c.jar">>
Paths == {PathHome, PathSmall, PathLimit, PathLarge}

\* st_size of the files that exist
FileSize == (PathSmall :> 1024) @@ (PathLimit :> MAX_ASSET_SIZE)
            @@ (PathLarge :> MAX_ASSET_SIZE + 1)

\* os.stat(path): the size, or OSError for a file that does not exist
StatFails(path) == path \notin DOMAIN FileSize

\* get_expanded_file_path: expansion of the user's home directory
HomeDir == <<"/", "home", "user">>
get_expanded_file_path(path) ==
    IF path # <<>> /\ Head(path) = "~" THEN HomeDir \o Tail(path) ELSE path

\* os.path.split: (head, tail) where tail is the last component
PathSplit(path) ==
    IF path = <<>> THEN <<(<<>>), "">>
    ELSE <<SubSeq(path, 1, Len(path) - 1), path[Len(path)]>>

(***************************************************************************)
(* Requests.                                                               *)
(***************************************************************************)
SeqsUpTo(S, n) == UNION {[1..k -> S] : k \in 0..n}

GroupNames == <<"g1", "g2">>
ParamNames == <<"p1", "p2">>

\* assetReferences of one parameter: absent, or a list of local paths.  The
\* first parameter of a request takes lists up to MaxAssets, the parameters
\* after it at most one asset.
AssetLists == {None} \cup {Some(s) : s \in SeqsUpTo(Paths, MaxAssets)}
ShortAssetLists == {None} \cup {Some(<<path>>) : path \in Paths}
AssetListsAt(g, i) == IF g = 1 /\ i = 1 THEN AssetLists ELSE ShortAssetLists

Parameter(i, refs) ==
    IF IsNone(refs) THEN [name |-> ParamNames[i]]
    ELSE [name |-> ParamNames[i], assetReferences |-> Val(refs)]

\* the parameter lists of group g when it has n parameters
ParamSeqs(g, n) ==
    {[i \in 1..n |-> Parameter(i, f[i])] :
        f \in {h \in [1..n -> AssetLists \cup ShortAssetLists] :
                    \A i \in 1..n : h[i] \in AssetListsAt(g, i)}}

\* number of parameters of each group of a request
Layouts == {<<1>>, <<2>>, <<1, 1>>}

GroupsFor(layout) ==
    {[g \in 1..Len(layout) |-> [name |-> GroupNames[g], parameters |-> ps[g]]] :
        ps \in {q \in [1..Len(layout) -> UNION {ParamSeqs(g, layout[g]) : g \in 1..Len(layout)}] :
                    \A g \in 1..Len(layout) : q[g] \in ParamSeqs(g, layout[g])}}

ParameterGroupsInputs ==
    {None, Some(<<>>)} \cup {Some(pgs) : pgs \in UNION {GroupsFor(l) : l \in Layouts}}

NarRequest == [username |-> "u", password |-> "pw", storageLocation |-> "s3a://nars"]
NarInputs == {None, Some(NarRequest)}

ServiceCrn == "crn:service:1"
OtherServiceCrn == "crn:service:2"

BaseRequest ==
    [deploymentName |-> "dep", serviceCrn |-> ServiceCrn, flowVersionCrn |-> "crn:flow:1"]

WithOpt(d, k, x) == IF IsNone(x) THEN d ELSE Put(d, k, Val(x))

Requests ==
    {WithOpt(WithOpt(BaseRequest, "parameterGroups", pgs), "customNarConfiguration", nar) :
        pgs \in ParameterGroupsInputs, nar \in NarInputs}

(***************************************************************************)
(* _process_kpis.  A unit id is the sequence of its characters.            *)
(***************************************************************************)
UpperCase == <<"A", "B", "C", "D", "E", "F", "G", "H", "I", "J", "K", "L", "M",
               "N", "O", "P", "Q", "R", "S", "T", "U", "V", "W", "X", "Y", "Z">>
LowerCase == <<"a", "b", "c", "d", "e", "f", "g", "h", "i", "j", "k", "l", "m",
               "n", "o", "p", "q", "r", "s", "t", "u", "v", "w", "x", "y", "z">>
ToLower(c) ==
    IF \E i \in 1..Len(UpperCase) : UpperCase[i] = c
    THEN LowerCase[CHOOSE i \in 1..Len(UpperCase) : UpperCase[i] = c] ELSE c
ToUpper(c) ==
    IF \E i \in 1..Len(LowerCase) : LowerCase[i] = c
    THEN UpperCase[CHOOSE i \in 1..Len(LowerCase) : LowerCase[i] = c] ELSE c
\* str.capitalize(): first character upper case, the rest lower case
Capitalize(str) ==
    [i \in 1..Len(str) |-> IF i = 1 THEN ToUpper(str[i]) ELSE ToLower(str[i])]
\* str[:1].lower()
FirstLower(str) == IF str = <<>> THEN <<>> ELSE <<ToLower(str[1])>>

\* mutant: the abbreviation is written over the unit id as well
ProcessKpi_IdAbbreviated(kpi) ==
    IF TruthyDict(Get(kpi, "alert"))
       /\ TruthyDict(Get(kpi["alert"], "frequencyTolerance"))
    THEN [kpi EXCEPT !["alert"]["frequencyTolerance"]["unit"] =
            Put(Put(Put(@, "label", Capitalize(@["id"])),
                    "abbreviation", FirstLower(@["id"])),
                "id", FirstLower(@["id"]))]
    ELSE kpi

ProcessKpi(kpi) ==
    IF TruthyDict(Get(kpi, "alert"))
       /\ TruthyDict(Get(kpi["alert"], "frequencyTolerance"))
    THEN [kpi EXCEPT !["alert"]["frequencyTolerance"]["unit"] =
            Put(Put(@, "label", Capitalize(@["id"])),
                "abbreviation", FirstLower(@["id"]))]
    ELSE kpi

_process_kpis(kpis) == [i \in 1..Len(kpis) |-> ProcessKpi(kpis[i])]

\* the exception the loop body raises on kpi: frequency_tolerance['unit']
\* and unit['id'] are subscripts, not get (NoError: the body completes)
KpiError(kpi) ==
    IF TruthyDict(Get(kpi, "alert"))
       /\ TruthyDict(Get(kpi["alert"], "frequencyTolerance"))
    THEN LET frequency_tolerance == kpi["alert"]["frequencyTolerance"]
         IN  IF ~Has(frequency_tolerance, "unit") THEN KeyError("unit")
             ELSE IF ~Has(frequency_tolerance["unit"], "id") THEN KeyError("id")
             ELSE NoError
    ELSE NoError
\* index of the first KPI the loop raises on (0: none)
FirstKpiError(kpis) ==
    IF \E i \in 1..Len(kpis) : KpiError(kpis[i]) # NoError
    THEN CHOOSE i \in 1..Len(kpis) :
            KpiError(kpis[i]) # NoError /\ \A j \in 1..(i - 1) : KpiError(kpis[j]) = NoError
    ELSE 0
\* the exception _process_kpis raises on kpis, NoError if it returns
KpisError(kpis) ==
    IF FirstKpiError(kpis) = 0 THEN NoError ELSE KpiError(kpis[FirstKpiError(kpis)])
\* the list as the loop leaves it when it raises: updated in place up to
\* the KPI that raised
KpisAtError(kpis) ==
    [i \in 1..Len(kpis) |-> IF i < FirstKpiError(kpis) THEN ProcessKpi(kpis[i]) ELSE kpis[i]]

(***************************************************************************)
(* _get_deployment_configuration: the creation payload, built from the     *)
(* request by presence of its optional fields.                             *)
(***************************************************************************)
\* mutant: every optional field is written, supplied or not
PutIf_Always(cond, d, k, v) == Put(d, k, v)
PutIf(cond, d, k, v) == IF cond THEN Put(d, k, v) ELSE d

_get_deployment_configuration(request_crn, p) ==
    LET base == [name |-> GetOr(p, "deploymentName", None),
                 deploymentRequestCrn |-> request_crn,
                 configurationVersion |-> INITIAL_CONFIGURATION_VERSION,
                 clusterSizeName |-> GetOr(p, "clusterSizeName", "EXTRA_SMALL"),
                 staticNodeCount |-> GetOr(p, "staticNodeCount", 1)]
        c1 == PutIf(Has(p, "nodeStorageProfileName"), base,
                    "nodeStorageProfileName", GetOr(p, "nodeStorageProfileName", None))
        c2 == PutIf(Has(p, "projectCrn"), c1, "projectCrn", GetOr(p, "projectCrn", None))
        c3 == IF Has(p, "inboundHostname")
              THEN Put(Put(c2, "inboundHostname", p["inboundHostname"]),
                       "listenComponents", Get(p, "listenComponents"))
              ELSE c2
        scaling == Get(p, "autoScalingEnabled")
        c4 == PutIf(~IsNone(scaling), c3, "autoScalingEnabled", GetOr(p, "autoScalingEnabled", None))
        c5 == IF TruthyBool(scaling)
              THEN LET d0 == Del(c4, "staticNodeCount")
                       d1 == PutIf(TruthyInt(Get(p, "autoScaleMinNodes")), d0,
                                   "autoScaleMinNodes", GetOr(p, "autoScaleMinNodes", None))
                   IN  PutIf(TruthyInt(Get(p, "autoScaleMaxNodes")), d1,
                             "autoScaleMaxNodes", GetOr(p, "autoScaleMaxNodes", None))
              ELSE c4
        c6 == PutIf(Has(p, "autoStartFlow"), c5, "autoStartFlow", GetOr(p, "autoStartFlow", None))
        c7 == PutIf(Has(p, "cfmNifiVersion") /\ GetOr(p, "cfmNifiVersion", "") # "", c6,
                    "cfmNifiVersion", GetOr(p, "cfmNifiVersion", None))
        c8 == PutIf(TruthySeq(Get(p, "parameterGroups")), c7,
                    "parameterGroups", GetOr(p, "parameterGroups", None))
    IN  IF TruthySeq(Get(p, "kpis"))
        THEN Put(c8, "kpis", _process_kpis(p["kpis"]))
        ELSE c8

(***************************************************************************)
(* _upload_assets, pass 1: stat every asset of every parameter group.      *)
(***************************************************************************)
RECURSIVE Flatten(_)
Flatten(ss) == IF ss = <<>> THEN <<>> ELSE Head(ss) \o Flatten(Tail(ss))

HasAssets(parameter) == TruthySeq(Get(parameter, "assetReferences"))
ParameterAssets(parameter) ==
    IF HasAssets(parameter) THEN parameter["assetReferences"] ELSE <<>>
GroupAssets(group) ==
    Flatten([i \in 1..Len(group["parameters"]) |-> ParameterAssets(group["parameters"][i])])
\* the asset paths in the order the loops visit them
AllAssets(parameter_groups) ==
    Flatten([g \in 1..Len(parameter_groups) |-> GroupAssets(parameter_groups[g])])

TooLarge(st_size) == st_size > MAX_ASSET_SIZE

\* mutant: only the first asset is checked before the upload pass starts
ValidateAssets_FirstOnly(parameter_groups) ==
    LET assets == AllAssets(parameter_groups)
    IN  IF assets = <<>> THEN NoError
        ELSE IF StatFails(assets[1]) THEN OSError("stat")
        ELSE IF TooLarge(FileSize[assets[1]]) THEN DfExtensionError("uploadAsset")
        ELSE NoError

\* the exception pass 1 raises, NoError if it completes
ValidateAssets(parameter_groups) ==
    LET assets == AllAssets(parameter_groups)
        Bad(i) == StatFails(assets[i]) \/ TooLarge(FileSize[assets[i]])
    IN  IF \E i \in 1..Len(assets) : Bad(i)
        THEN LET first == CHOOSE i \in 1..Len(assets) :
                              Bad(i) /\ \A j \in 1..(i - 1) : ~Bad(j)
             IN  IF StatFails(assets[first]) THEN OSError("stat")
                 ELSE DfExtensionError("uploadAsset")
        ELSE NoError

(***************************************************************************)
(* _upload_assets, pass 2: positions of the parameters that have assets.   *)
(***************************************************************************)
NoPos == <<0, 0>>
AssetPositions(parameter_groups) ==
    UNION {{<<g, p>> : p \in {i \in 1..Len(parameter_groups[g]["parameters"]) :
                                HasAssets(parameter_groups[g]["parameters"][i])}} :
           g \in 1..Len(parameter_groups)}
PosBefore(a, b) == a[1] < b[1] \/ (a[1] = b[1] /\ a[2] < b[2])
\* the first parameter with assets strictly after position a (NoPos: none)
NextAssetPos(parameter_groups, a) ==
    LET later == {q \in AssetPositions(parameter_groups) : PosBefore(a, q)}
    IN  IF later = {} THEN NoPos
        ELSE CHOOSE q \in later : \A r \in later : r = q \/ PosBefore(q, r)

\* mutant: the reference is split from the path as given, not expanded
AssetReference_Unexpanded(asset_path) ==
    LET split == PathSplit(asset_path)
    IN  [name |-> split[2], path |-> split[1], version |-> INITIAL_ASSET_VERSION]

AssetReference(asset_path) ==
    LET split == PathSplit(get_expanded_file_path(asset_path))
    IN  [name |-> split[2], path |-> split[1], version |-> INITIAL_ASSET_VERSION]

(***************************************************************************)
(* Requests that exercise the builder: the sizing options of the command   *)
(* (CreateDeploymentRequest) in every combination of absent and present,   *)
(* with and without the other optional fields, and requests with KPIs.     *)
(***************************************************************************)
MaxKpis == 2

Merge(d, e) == [k \in DOMAIN d \cup DOMAIN e |-> IF k \in DOMAIN e THEN e[k] ELSE d[k]]

ScalingFlags == {None, Some(TRUE), Some(FALSE)}
MinNodeInputs == {None, Some(0), Some(2)}
MaxNodeInputs == {None, Some(0), Some(3)}
StaticNodeInputs == {None, Some(0), Some(3)}

AllExtras ==
    [clusterSizeName |-> "SMALL", nodeStorageProfileName |-> "STANDARD_AWS",
     projectCrn |-> "crn:project:1", inboundHostname |-> "host.example",
     listenComponents |-> <<[protocol |-> "TCP", port |-> "9000"]>>,
     autoStartFlow |-> FALSE, cfmNifiVersion |-> "1.20"]
HostOnly ==
    [inboundHostname |-> "host.example", autoStartFlow |-> TRUE, cfmNifiVersion |-> ""]
Extras == {EmptyDict, AllExtras, HostOnly}

SizingRequests ==
    {WithOpt(WithOpt(WithOpt(WithOpt(Merge(BaseRequest, extras),
        "autoScalingEnabled", flag), "autoScaleMinNodes", lo),
        "autoScaleMaxNodes", hi), "staticNodeCount", n) :
        extras \in Extras, flag \in ScalingFlags, lo \in MinNodeInputs,
        hi \in MaxNodeInputs, n \in StaticNodeInputs}

\* DeploymentFrequencyTolerance.unit.id is one of four names
UnitIds == {<<"S", "E", "C", "O", "N", "D", "S">>, <<"M", "I", "N", "U", "T", "E", "S">>,
            <<"H", "O", "U", "R", "S">>, <<"D", "A", "Y", "S">>}
Threshold == [unitId |-> "percent", value |-> 80]
\* unit.id is not required by the schema, nor is frequencyTolerance.unit
Units == {EmptyDict} \cup {[id |-> id] : id \in UnitIds}
FrequencyTolerances == {EmptyDict, [value |-> 5]} \cup {[value |-> 5, unit |-> u] : u \in Units}
Alerts ==
    {EmptyDict, [thresholdMoreThan |-> Threshold]}
    \cup {[thresholdLessThan |-> Threshold, frequencyTolerance |-> ft] :
            ft \in FrequencyTolerances}
Kpis ==
    {[metricId |-> "cpuUtilization"]}
    \cup {[metricId |-> "cpuUtilization", componentId |-> "c1", alert |-> a] : a \in Alerts}
KpiLists == SeqsUpTo(Kpis, MaxKpis)
KpiRequests == {Put(BaseRequest, "kpis", kpis) : kpis \in KpiLists}

\* requests that reach the upload pass and the NAR steps as well
UploadingRequests ==
    {r \in Requests : /\ Has(r, "customNarConfiguration")
                      /\ Has(r, "parameterGroups")
                      /\ AllAssets(r["parameterGroups"]) = <<PathSmall>>}

BuilderRequests == SizingRequests \cup KpiRequests \cup UploadingRequests

(***************************************************************************)
(* Remote responses.                                                       *)
(***************************************************************************)
RequestCrn == "crn:request:1"
EnvironmentCrn == "crn:env:1"
OtherEnvironmentCrn == "crn:env:2"
DeploymentCrn == "crn:deployment:1"

\* initiateDeployment: deploymentRequestCrn of the response (None: key missing)
InitiateResponses == {None, Some(RequestCrn)}

\* listDeployableServicesForNewDeployments: the services of the response
Service(crn, env) == [crn |-> crn, environmentCrn |-> env]
Listings ==
    { <<>>,
      <<Service(OtherServiceCrn, OtherEnvironmentCrn)>>,
      <<Service(OtherServiceCrn, OtherEnvironmentCrn), Service(ServiceCrn, EnvironmentCrn)>>,
      <<Service(ServiceCrn, EnvironmentCrn), Service(ServiceCrn, OtherEnvironmentCrn)>> }

\* create/getDefault/updateCustomNarConfiguration: crn and version of the response
NarCrns == {"crn:nar:new", "crn:nar:default"}
NarVersions == {0, 3}
NarResponses == [crn : NarCrns, configurationVersion : NarVersions]

\* upload_workload_asset fails with either class the handler in invoke names
UploadOutcomes ==
    ApiOutcomes("uploadAsset") \cup {DfExtensionError("uploadAsset")}

(***************************************************************************)
(* State after construction: a request has been parsed, nothing called.    *)
(***************************************************************************)
\* mutant: the environment is resolved before the deployment is initiated
InvokeOrder_ResolveFirst == <<"resolve", "initiate", "token", "details", "validate">>

\* the order of the first statements of invoke
InvokeOrder == <<"initiate", "resolve", "token", "details", "validate">>
\* mutant: the request details are fetched before the token is acquired
StepAfter_DetailsFirst(step) ==
    LET order == <<"initiate", "resolve", "details", "token", "validate">>
    IN  order[(CHOOSE i \in 1..Len(order) : order[i] = step) + 1]

StepAfter(step) ==
    InvokeOrder[(CHOOSE i \in 1..Len(InvokeOrder) : InvokeOrder[i] = step) + 1]

Init ==
    /\ pc = InvokeOrder[1]
    /\ parameters \in Requests
    /\ request = parameters
    /\ deployment_request_crn = None
    /\ environment_crn = None
    /\ deployment_configuration = EmptyDict
    /\ custom_nar_configuration = None
    /\ updated_asset_references = <<>>
    /\ pos = NoPos
    /\ pending = NoError
    /\ raised = NoError
    /\ response = None
    /\ calls = <<>>
    /\ log = <<>>
    /\ default_configuration = None

\* an exception leaves invoke
Raise(e) == raised' = e /\ pc' = "failed"

\* a remote call is issued and ends with outcome
Issue(op, payload, outcome) == calls' = Append(calls, Call(op, payload, outcome))

(***************************************************************************)
(* invoke, up to the upload of the assets.                                 *)
(***************************************************************************)
\* _initiate_deployment
InitiateDeployment ==
    /\ pc = "initiate"
    /\ \E outcome \in ApiOutcomes("initiateDeployment") :
        /\ Issue("initiateDeployment",
                 [serviceCrn |-> Get(parameters, "serviceCrn"),
                  flowVersionCrn |-> Get(parameters, "flowVersionCrn")], outcome)
        /\ IF outcome = Ok
           THEN /\ \E request_crn \in InitiateResponses :
                        deployment_request_crn' = request_crn
                /\ pc' = StepAfter("initiate")
                /\ UNCHANGED raised
           ELSE /\ Raise(outcome)
                /\ UNCHANGED deployment_request_crn
    /\ UNCHANGED <<parameters, environment_crn, deployment_configuration,
                   custom_nar_configuration, updated_asset_references, pos,
                   pending, response, log, request, default_configuration>>

\* the services of the listing whose crn is service_crn, in listing order
Matching(services, service_crn) ==
    SelectSeq(services, LAMBDA service : Get(service, "crn") = service_crn)

\* _get_environment_crn
GetEnvironmentCrn ==
    /\ pc = "resolve"
    /\ \E outcome \in ApiOutcomes("listDeployableServicesForNewDeployments") :
        /\ Issue("listDeployableServicesForNewDeployments", EmptyDict, outcome)
        /\ IF outcome = Ok
           THEN \E services \in Listings :
                  LET found == Matching(services, Get(parameters, "serviceCrn"))
                  IN  IF found # <<>>
                      THEN /\ environment_crn' = Get(found[1], "environmentCrn")
                           /\ pc' = StepAfter("resolve")
                           /\ UNCHANGED raised
                      ELSE /\ Raise(DfExtensionError("listDeployableServicesForNewDeployments"))
                           /\ UNCHANGED environment_crn
           ELSE /\ Raise(outcome)
                /\ UNCHANGED environment_crn
    /\ UNCHANGED <<parameters, deployment_request_crn, deployment_configuration,
                   custom_nar_configuration, updated_asset_references, pos,
                   pending, response, log, request, default_configuration>>

\* mutant: the token is acquired inside the try block of invoke
SetWorkloadAccessToken_InsideTry ==
    /\ pc = "token"
    /\ \E outcome \in ApiOutcomes("set_workload_access_token") :
        /\ Issue("set_workload_access_token",
                 [serviceName |-> "DF", environmentCrn |-> environment_crn], outcome)
        /\ IF outcome = Ok
           THEN pc' = StepAfter("token") /\ UNCHANGED <<raised, pending>>
           ELSE pending' = outcome /\ pc' = "abort_upload" /\ UNCHANGED raised
    /\ UNCHANGED <<parameters, deployment_request_crn, environment_crn,
                   deployment_configuration, custom_nar_configuration,
                   updated_asset_references, pos, response, log, request, default_configuration>>

\* set_workload_access_token(iam_client, parsed_globals, 'DF', environment_crn)
SetWorkloadAccessToken ==
    /\ pc = "token"
    /\ \E outcome \in ApiOutcomes("set_workload_access_token") :
        /\ Issue("set_workload_access_token",
                 [serviceName |-> "DF", environmentCrn |-> environment_crn], outcome)
        /\ IF outcome = Ok
           THEN pc' = StepAfter("token") /\ UNCHANGED raised
           ELSE Raise(outcome)
    /\ UNCHANGED <<parameters, deployment_request_crn, environment_crn,
                   deployment_configuration, custom_nar_configuration,
                   updated_asset_references, pos, pending, response, log, request, default_configuration>>

\* _get_deployment_request_details
GetDeploymentRequestDetails ==
    /\ pc = "details"
    /\ \E outcome \in ApiOutcomes("getDeploymentRequestDetails") :
        /\ Issue("getDeploymentRequestDetails",
                 [deploymentRequestCrn |-> deployment_request_crn,
                  environmentCrn |-> environment_crn], outcome)
        /\ IF outcome = Ok
           THEN pc' = StepAfter("details") /\ UNCHANGED raised
           ELSE Raise(outcome)
    /\ UNCHANGED <<parameters, deployment_request_crn, environment_crn,
                   deployment_configuration, custom_nar_configuration,
                   updated_asset_references, pos, pending, response, log, request, default_configuration>>

(***************************************************************************)
(* invoke: try: _upload_assets except (ClientError, DfExtensionError):     *)
(* _abort_deployment_request; raise                                        *)
(***************************************************************************)
\* mutant: the except clause names ClientError only
UploadHandlerCatches_ClientErrorOnly(e) == e.class = "ClientError"

\* the classes the except clause around _upload_assets names
UploadHandlerCatches(e) == e.class \in {"ClientError", "DfExtensionError"}

\* _upload_assets, pass 1 (local: no remote call)
ValidateAssetSizes ==
    /\ pc = "validate"
    /\ LET parameter_groups == Get(parameters, "parameterGroups")
           e == ValidateAssets(Val(parameter_groups))
       IN  IF ~TruthySeq(parameter_groups)
           THEN pc' = "configure" /\ UNCHANGED <<pos, pending, raised>>
           ELSE IF e = NoError
           THEN /\ pos' = NextAssetPos(Val(parameter_groups), NoPos)
                /\ pc' = IF pos' = NoPos THEN "configure" ELSE "upload"
                /\ UNCHANGED <<pending, raised>>
           ELSE IF UploadHandlerCatches(e)
           THEN pending' = e /\ pc' = "abort_upload" /\ UNCHANGED <<pos, raised>>
           ELSE Raise(e) /\ UNCHANGED <<pos, pending>>
    /\ UNCHANGED <<parameters, deployment_request_crn, environment_crn,
                   deployment_configuration, custom_nar_configuration,
                   updated_asset_references, response, calls, log, request, default_configuration>>

\* parameter['assetReferences'] = updated_asset_references
Rewrite(p, at, refs) ==
    [p EXCEPT !["parameterGroups"][at[1]]["parameters"][at[2]]["assetReferences"] = refs]

\* mutant: the parameter is rewritten inside the loop over its assets
AssetLoopDone_AfterFirst(updated, asset_references) == TRUE

\* the loop over the assets of one parameter has run to its end, so the
\* assignment that follows the loop is reached
AssetLoopDone(updated, asset_references) == Len(updated) = Len(asset_references)

\* _upload_assets, pass 2: one upload_workload_asset call and what follows it
UploadAsset ==
    /\ pc = "upload"
    /\ LET parameter_groups == parameters["parameterGroups"]
           group == parameter_groups[pos[1]]
           parameter == group["parameters"][pos[2]]
           asset_references == parameter["assetReferences"]
           asset_path == asset_references[Len(updated_asset_references) + 1]
           asset_params == [deploymentName |-> Get(parameters, "deploymentName"),
                            deploymentRequestCrn |-> deployment_request_crn,
                            parameterGroup |-> group["name"],
                            parameterName |-> Get(parameter, "name"),
                            filePath |-> asset_path]
           updated == Append(updated_asset_references, AssetReference(asset_path))
       IN  \E outcome \in UploadOutcomes :
            /\ Issue("uploadAsset", asset_params, outcome)
            /\ IF outcome = Ok
               THEN /\ IF AssetLoopDone(updated, asset_references)
                       THEN /\ parameters' = Rewrite(parameters, pos, updated)
                            /\ updated_asset_references' = <<>>
                            /\ pos' = NextAssetPos(parameter_groups, pos)
                            /\ pc' = IF pos' = NoPos THEN "configure" ELSE "upload"
                       ELSE /\ updated_asset_references' = updated
                            /\ UNCHANGED <<parameters, pos, pc>>
                    /\ UNCHANGED <<pending, raised>>
               ELSE IF UploadHandlerCatches(outcome)
               THEN /\ pending' = outcome
                    /\ pc' = "abort_upload"
                    /\ UNCHANGED <<parameters, updated_asset_references, pos, raised>>
               ELSE /\ Raise(outcome)
                    /\ UNCHANGED <<parameters, updated_asset_references, pos, pending>>
    /\ UNCHANGED <<deployment_request_crn, environment_crn, deployment_configuration,
                   custom_nar_configuration, response, log, request, default_configuration>>

(***************************************************************************)
(* Best-effort clean-up calls: a ClientError is logged, not raised.        *)
(***************************************************************************)
\* mutant: the clean-up functions have no except clause
CleanUpHandlerCatches_Nothing(e) == FALSE

\* the class the except clauses of the two clean-up functions name
CleanUpHandlerCatches(e) == e.class = "ClientError"
\* the clean-up call raised and its function lets the exception through
Escapes(outcome) == outcome # Ok /\ ~CleanUpHandlerCatches(outcome)

LogRecord(outcome, failed_msg, other_msg) ==
    [level |-> "error",
     msg |-> IF outcome.status >= 400 THEN failed_msg ELSE other_msg,
     status |-> outcome.status]
Logged(outcome, failed_msg, other_msg) ==
    log' = IF outcome # Ok /\ CleanUpHandlerCatches(outcome)
           THEN Append(log, LogRecord(outcome, failed_msg, other_msg))
           ELSE log

\* mutant: a failed abort call is issued a second time
AbortDeploymentRequest_Retried(outcome) ==
    LET abort == Call("abortDeploymentRequest",
                      [deploymentRequestCrn |-> deployment_request_crn,
                       environmentCrn |-> environment_crn], outcome)
    IN  /\ calls' = IF outcome = Ok THEN Append(calls, abort)
                    ELSE Append(Append(calls, abort), abort)
        /\ Logged(outcome, "Failed to clean up deployment request",
                  "Encountered an error while attempting to abort deployment request")

\* _abort_deployment_request
AbortDeploymentRequest(outcome) ==
    /\ Issue("abortDeploymentRequest",
             [deploymentRequestCrn |-> deployment_request_crn,
              environmentCrn |-> environment_crn], outcome)
    /\ Logged(outcome, "Failed to clean up deployment request",
              "Encountered an error while attempting to abort deployment request")

\* _delete_custom_nar_configuration
DeleteCustomNarConfiguration(outcome) ==
    /\ Issue("deleteCustomNarConfiguration",
             [customNarConfigurationCrn |-> Val(custom_nar_configuration)["crn"],
              configurationVersion |->
                    Val(custom_nar_configuration)["configurationVersion"],
              environmentCrn |-> environment_crn], outcome)
    /\ Logged(outcome, "Failed to clean up Custom NAR Configuration",
              "Encountered an error while attempting to cleanup Custom NAR configuration")

\* mutant: the handler also removes the assets uploaded so far
AbortAfterUploadFailure_RollBack ==
    /\ pc = "abort_upload"
    /\ \E outcome \in ApiOutcomes("abortDeploymentRequest") :
        /\ calls' = Append(Append(calls,
                Call("abortDeploymentRequest",
                     [deploymentRequestCrn |-> deployment_request_crn,
                      environmentCrn |-> environment_crn], outcome)),
                Call("deleteAsset",
                     [deploymentRequestCrn |-> deployment_request_crn], Ok))
        /\ Logged(outcome, "Failed to clean up deployment request",
                  "Encountered an error while attempting to abort deployment request")
        /\ Raise(IF Escapes(outcome) THEN outcome ELSE pending)
    /\ UNCHANGED <<parameters, deployment_request_crn, environment_crn,
                   deployment_configuration, custom_nar_configuration,
                   updated_asset_references, pos, pending, response, request,
                   default_configuration>>

\* the except clause of invoke: abort, then re-raise what was caught
AbortAfterUploadFailure ==
    /\ pc = "abort_upload"
    /\ \E outcome \in ApiOutcomes("abortDeploymentRequest") :
        /\ AbortDeploymentRequest(outcome)
        /\ Raise(IF Escapes(outcome) THEN outcome ELSE pending)
    /\ UNCHANGED <<parameters, deployment_request_crn, environment_crn,
                   deployment_configuration, custom_nar_configuration,
                   updated_asset_references, pos, pending, response, request, default_configuration>>

(***************************************************************************)
(* _create_deployment.                                                     *)
(***************************************************************************)
\* mutant: a request without customNarConfiguration gets an empty one
BuildConfiguration_DefaultNar ==
    /\ pc = "configure"
    /\ deployment_configuration' =
            _get_deployment_configuration(deployment_request_crn, parameters)
    /\ parameters' = Put(parameters, "customNarConfiguration",
            Put(GetOr(parameters, "customNarConfiguration", EmptyDict),
                "environmentCrn", environment_crn))
    /\ pc' = "nar_create"
    /\ UNCHANGED <<deployment_request_crn, environment_crn, custom_nar_configuration,
                   updated_asset_references, pos, pending, raised, response, calls,
                   log, request, default_configuration>>

\* _get_deployment_configuration, then _process_custom_nar_configuration up
\* to its first remote call (local: no remote call)
BuildConfiguration ==
    /\ pc = "configure"
    /\ LET kpis == Get(parameters, "kpis")
           error == IF TruthySeq(kpis) THEN KpisError(Val(kpis)) ELSE NoError
           p1 == IF TruthySeq(kpis)
                 THEN Put(parameters, "kpis", _process_kpis(Val(kpis)))
                 ELSE parameters
           requested == Get(parameters, "customNarConfiguration")
       IN  IF error # NoError
           THEN \* _process_kpis raises: no handler of invoke is in scope
                /\ parameters' = Put(parameters, "kpis", KpisAtError(Val(kpis)))
                /\ Raise(error)
                /\ UNCHANGED deployment_configuration
           ELSE /\ deployment_configuration' =
                        _get_deployment_configuration(deployment_request_crn, parameters)
                /\ UNCHANGED raised
                /\ IF TruthyDict(requested)
                   THEN /\ parameters' = Put(p1, "customNarConfiguration",
                                Put(Val(requested), "environmentCrn", environment_crn))
                        /\ pc' = "nar_create"
                   ELSE /\ parameters' = p1
                        /\ pc' = "create"
    /\ UNCHANGED <<deployment_request_crn, environment_crn, custom_nar_configuration,
                   updated_asset_references, pos, pending, response, calls,
                   log, request, default_configuration>>

\* the tail of _create_deployment once _process_custom_nar_configuration
\* has returned a configuration
AdoptNarConfiguration(nar_response) ==
    /\ custom_nar_configuration' = Some(nar_response)
    /\ deployment_configuration' =
            Put(deployment_configuration, "customNarConfigurationCrn", nar_response["crn"])
    /\ pc' = "create"

\* mutant: the except clause re-raises every ClientError
IsConflict_Never(e) == FALSE

\* the status the except clause of _process_custom_nar_configuration absorbs
IsConflict(e) == e.class = "ClientError" /\ e.status = 409

\* _process_custom_nar_configuration: createCustomNarConfiguration
CreateCustomNarConfiguration ==
    /\ pc = "nar_create"
    /\ \E outcome \in ApiOutcomes("createCustomNarConfiguration") :
        /\ Issue("createCustomNarConfiguration",
                 parameters["customNarConfiguration"], outcome)
        /\ IF outcome = Ok
           THEN /\ \E nar_response \in NarResponses : AdoptNarConfiguration(nar_response)
                /\ UNCHANGED raised
           ELSE IF IsConflict(outcome)
           THEN /\ pc' = "nar_default"
                /\ UNCHANGED <<custom_nar_configuration, deployment_configuration, raised>>
           ELSE /\ Raise(outcome)
                /\ UNCHANGED <<custom_nar_configuration, deployment_configuration>>
    /\ UNCHANGED <<parameters, deployment_request_crn, environment_crn,
                   updated_asset_references, pos, pending, response, log, request, default_configuration>>

\* mutant: only the crn of the default configuration is copied
CopyDefault_CrnOnly(requested, fetched) ==
    Put(Put(requested, "crn", fetched["crn"]),
        "configurationVersion", INITIAL_CONFIGURATION_VERSION)

\* custom_nar_configuration['crn'] = ...; ['configurationVersion'] = ...
CopyDefault(requested, fetched) ==
    Put(Put(requested, "crn", fetched["crn"]),
        "configurationVersion", fetched["configurationVersion"])

\* mutant: the default configuration is returned as fetched, without update
GetDefaultNarConfiguration_NoUpdate ==
    /\ pc = "nar_default"
    /\ \E outcome \in ApiOutcomes("getDefaultCustomNarConfiguration") :
        /\ Issue("getDefaultCustomNarConfiguration",
                 [environmentCrn |-> environment_crn], outcome)
        /\ IF outcome = Ok
           THEN /\ \E fetched \in NarResponses :
                    /\ default_configuration' = Some(fetched)
                    /\ AdoptNarConfiguration(fetched)
                /\ UNCHANGED raised
           ELSE /\ Raise(outcome)
                /\ UNCHANGED <<custom_nar_configuration, deployment_configuration,
                               default_configuration>>
    /\ UNCHANGED <<parameters, deployment_request_crn, environment_crn,
                   updated_asset_references, pos, pending, response, log, request>>

\* _get_default_nar_configuration: getDefaultCustomNarConfiguration
GetDefaultNarConfiguration ==
    /\ pc = "nar_default"
    /\ \E outcome \in ApiOutcomes("getDefaultCustomNarConfiguration") :
        /\ Issue("getDefaultCustomNarConfiguration",
                 [environmentCrn |-> environment_crn], outcome)
        /\ IF outcome = Ok
           THEN /\ \E fetched \in NarResponses :
                    /\ default_configuration' = Some(fetched)
                    /\ parameters' = Put(parameters, "customNarConfiguration",
                           CopyDefault(parameters["customNarConfiguration"], fetched))
                /\ pc' = "nar_update"
                /\ UNCHANGED raised
           ELSE /\ Raise(outcome)
                /\ UNCHANGED <<parameters, default_configuration>>
    /\ UNCHANGED <<deployment_request_crn, environment_crn, deployment_configuration,
                   custom_nar_configuration, updated_asset_references, pos,
                   pending, response, log, request>>

\* mutant: an adopted configuration is used but not held for clean-up
UpdateCustomNarConfiguration_NotHeld ==
    /\ pc = "nar_update"
    /\ \E outcome \in ApiOutcomes("updateCustomNarConfiguration") :
        /\ Issue("updateCustomNarConfiguration",
                 parameters["customNarConfiguration"], outcome)
        /\ IF outcome = Ok
           THEN /\ \E nar_response \in NarResponses :
                    deployment_configuration' =
                        Put(deployment_configuration, "customNarConfigurationCrn",
                            nar_response["crn"])
                /\ pc' = "create"
                /\ UNCHANGED <<raised, custom_nar_configuration>>
           ELSE /\ Raise(outcome)
                /\ UNCHANGED <<custom_nar_configuration, deployment_configuration>>
    /\ UNCHANGED <<parameters, deployment_request_crn, environment_crn,
                   updated_asset_references, pos, pending, response, log, request, default_configuration>>

\* _get_default_nar_configuration: updateCustomNarConfiguration
UpdateCustomNarConfiguration ==
    /\ pc = "nar_update"
    /\ \E outcome \in ApiOutcomes("updateCustomNarConfiguration") :
        /\ Issue("updateCustomNarConfiguration",
                 parameters["customNarConfiguration"], outcome)
        /\ IF outcome = Ok
           THEN /\ \E nar_response \in NarResponses : AdoptNarConfiguration(nar_response)
                /\ UNCHANGED raised
           ELSE /\ Raise(outcome)
                /\ UNCHANGED <<custom_nar_configuration, deployment_configuration>>
    /\ UNCHANGED <<parameters, deployment_request_crn, environment_crn,
                   updated_asset_references, pos, pending, response, log, request, default_configuration>>

\* mutant: createDeployment is called outside any try block
CreateHandlerCatches_Nothing(e) == FALSE

\* the classes the except clause around createDeployment names
CreateHandlerCatches(e) == e.class \in {"ClientError", "DfExtensionError"}

\* mutant: the NAR configuration is deleted before the request is aborted
TearDownOrder_Reversed == <<"tear_down_delete", "tear_down_abort">>
\* mutant: _tear_down stops after its first step
AfterTearDownStep_FirstOnly(step) == "raise"

\* the order of the two clean-up steps of _tear_down
TearDownOrder == <<"tear_down_abort", "tear_down_delete">>
AfterTearDownStep(step) ==
    IF step = TearDownOrder[1] THEN TearDownOrder[2] ELSE "raise"

\* mutant: _tear_down runs in a finally clause, after success as well
CreateDeployment_TearDownAlways ==
    /\ pc = "create"
    /\ deployment_configuration' =
            Put(deployment_configuration, "environmentCrn", environment_crn)
    /\ \E outcome \in ApiOutcomes("createDeployment") :
        /\ Issue("createDeployment", deployment_configuration', outcome)
        /\ IF outcome = Ok \/ CreateHandlerCatches(outcome)
           THEN /\ pending' = outcome
                /\ pc' = TearDownOrder[1]
                /\ UNCHANGED <<response, raised>>
           ELSE /\ Raise(outcome)
                /\ UNCHANGED <<response, pending>>
    /\ UNCHANGED <<parameters, deployment_request_crn, environment_crn,
                   custom_nar_configuration, updated_asset_references, pos, log,
                   request, default_configuration>>

\* try: createDeployment except (ClientError, DfExtensionError): _tear_down; raise
CreateDeployment ==
    /\ pc = "create"
    /\ deployment_configuration' =
            Put(deployment_configuration, "environmentCrn", environment_crn)
    /\ \E outcome \in ApiOutcomes("createDeployment") :
        /\ Issue("createDeployment", deployment_configuration', outcome)
        /\ IF outcome = Ok
           THEN /\ response' = Some([deploymentCrn |-> Some(DeploymentCrn)])
                /\ pc' = "done"
                /\ UNCHANGED <<pending, raised>>
           ELSE IF CreateHandlerCatches(outcome)
           THEN /\ pending' = outcome
                /\ pc' = TearDownOrder[1]
                /\ UNCHANGED <<response, raised>>
           ELSE /\ Raise(outcome)
                /\ UNCHANGED <<response, pending>>
    /\ UNCHANGED <<parameters, deployment_request_crn, environment_crn,
                   custom_nar_configuration, updated_asset_references, pos, log,
                   request, default_configuration>>

\* mutant: _tear_down gives up as soon as one clean-up call fails
LeaveTearDownStep_StopOnFailure(step, outcome) ==
    IF Escapes(outcome) THEN Raise(outcome)
    ELSE IF outcome # Ok \/ AfterTearDownStep(step) = "raise" THEN Raise(pending)
    ELSE pc' = AfterTearDownStep(step) /\ UNCHANGED raised

\* after a step of _tear_down: an exception the step let through leaves
\* invoke; otherwise the next step runs, or the handler re-raises
LeaveTearDownStep(step, outcome) ==
    IF Escapes(outcome) THEN Raise(outcome)
    ELSE IF AfterTearDownStep(step) = "raise" THEN Raise(pending)
    ELSE pc' = AfterTearDownStep(step) /\ UNCHANGED raised

\* _tear_down: if deployment_request_crn is not None: _abort_deployment_request
TearDownAbort ==
    /\ pc = "tear_down_abort"
    /\ IF ~IsNone(deployment_request_crn)
       THEN \E outcome \in ApiOutcomes("abortDeploymentRequest") :
                /\ AbortDeploymentRequest(outcome)
                /\ LeaveTearDownStep("tear_down_abort", outcome)
       ELSE /\ UNCHANGED <<calls, log>>
            /\ LeaveTearDownStep("tear_down_abort", Ok)
    /\ UNCHANGED <<parameters, deployment_request_crn, environment_crn,
                   deployment_configuration, custom_nar_configuration,
                   updated_asset_references, pos, pending, response, request, default_configuration>>

\* _tear_down: if custom_nar_configuration is not None: _delete_custom_nar_configuration
TearDownDelete ==
    /\ pc = "tear_down_delete"
    /\ IF ~IsNone(custom_nar_configuration)
       THEN \E outcome \in ApiOutcomes("deleteCustomNarConfiguration") :
                /\ DeleteCustomNarConfiguration(outcome)
                /\ LeaveTearDownStep("tear_down_delete", outcome)
       ELSE /\ UNCHANGED <<calls, log>>
            /\ LeaveTearDownStep("tear_down_delete", Ok)
    /\ UNCHANGED <<parameters, deployment_request_crn, environment_crn,
                   deployment_configuration, custom_nar_configuration,
                   updated_asset_references, pos, pending, response, request, default_configuration>>

Next ==
    \/ InitiateDeployment
    \/ GetEnvironmentCrn
    \/ SetWorkloadAccessToken
    \/ GetDeploymentRequestDetails
    \/ ValidateAssetSizes
    \/ UploadAsset
    \/ AbortAfterUploadFailure
    \/ BuildConfiguration
    \/ CreateCustomNarConfiguration
    \/ GetDefaultNarConfiguration
    \/ UpdateCustomNarConfiguration
    \/ CreateDeployment
    \/ TearDownAbort
    \/ TearDownDelete

Spec == Init /\ [][Next]_vars

\* the same program, started on the requests that exercise the builder
InitBuilder ==
    /\ pc = InvokeOrder[1]
    /\ parameters \in BuilderRequests
    /\ request = parameters
    /\ deployment_request_crn = None
    /\ environment_crn = None
    /\ deployment_configuration = EmptyDict
    /\ custom_nar_configuration = None
    /\ updated_asset_references = <<>>
    /\ pos = NoPos
    /\ pending = NoError
    /\ raised = NoError
    /\ response = None
    /\ calls = <<>>
    /\ log = <<>>
    /\ default_configuration = None

SpecBuilder == InitBuilder /\ [][Next]_vars

(***************************************************************************)
(* Properties of the saga.  They read the call history of the run.         *)
(***************************************************************************)
ListOp == "listDeployableServicesForNewDeployments"
TokenOp == "set_workload_access_token"
AbortOp == "abortDeploymentRequest"
DeleteOp == "deleteCustomNarConfiguration"
CreateNarOp == "createCustomNarConfiguration"
DefaultNarOp == "getDefaultCustomNarConfiguration"
UpdateNarOp == "updateCustomNarConfiguration"
CompensationOps == {AbortOp, DeleteOp}
NarOps == {CreateNarOp, DefaultNarOp, UpdateNarOp, DeleteOp}

Ops == [i \in 1..Len(calls) |-> calls[i].op]
Called(op) == \E i \in 1..Len(calls) : calls[i].op = op
Succeeded(op) == \E i \in 1..Len(calls) : calls[i].op = op /\ calls[i].outcome = Ok
Failed == pc = "failed"
HandleReturned == ~IsNone(deployment_request_crn)
AbortAttemptedForHandle ==
    \E i \in 1..Len(calls) :
        /\ calls[i].op = AbortOp
        /\ calls[i].payload["deploymentRequestCrn"] = deployment_request_crn
CompensationCalled == \E i \in 1..Len(calls) : calls[i].op \in CompensationOps

\* the calls of the saga proper, without the clean-up calls
SagaCalls == SelectSeq(calls, LAMBDA c : c.op \notin CompensationOps)
LastSagaCall == SagaCalls[Len(SagaCalls)]
\* the error that made the run fail: the outcome of the last saga call, or
\* the size-validation error when that call had succeeded
TriggeringError ==
    IF LastSagaCall.outcome # Ok THEN LastSagaCall.outcome
    ELSE DfExtensionError("uploadAsset")

ResolutionFailed == Failed /\ raised = DfExtensionError(ListOp)

\* C2 (as claimed): if environment resolution fails, the listing call is the
\* only remote call of the run; initiateDeployment has not been called.
C2_Original == ResolutionFailed => \A i \in 1..Len(calls) : calls[i].op = ListOp

\* C2 (amended): if environment resolution fails, the remote calls of the run
\* are initiateDeployment followed by the listing call and nothing else:
\* the deployment is initiated before the environment is resolved.
C2_OnlyInitiateAndListing ==
    ResolutionFailed => Ops = <<"initiateDeployment", ListOp>>
C2_Witness == ResolutionFailed /\ HandleReturned /\ Len(calls) = 2

FailedCleanUps == SelectSeq(calls, LAMBDA c : c.op \in CompensationOps /\ c.outcome # Ok)

\* C3: whenever compensation ran, the error that reaches the caller is the
\* error that triggered it, whatever the outcome of the clean-up calls; each
\* failed clean-up call leaves one log record and nothing else.
C3_OriginalErrorSurvivesCompensation ==
    (Failed /\ CompensationCalled) =>
        /\ raised = TriggeringError
        /\ raised.op \notin CompensationOps
        /\ Len(log) = Len(FailedCleanUps)
C3_Witness ==
    /\ Failed /\ Len(FailedCleanUps) = 2 /\ Len(log) = 2
    /\ raised.op = "createDeployment"

CreateDeploymentFailed ==
    Failed /\ LastSagaCall.op = "createDeployment" /\ LastSagaCall.outcome # Ok
DeleteCalledFor(nar) ==
    \E i \in 1..Len(calls) :
        /\ calls[i].op = DeleteOp
        /\ calls[i].payload["customNarConfigurationCrn"] = nar["crn"]
        /\ calls[i].payload["configurationVersion"] = nar["configurationVersion"]

\* C4: if createDeployment fails in a run that freshly created a NAR
\* configuration (and holds a handle), the run has called
\* deleteCustomNarConfiguration for that configuration and
\* abortDeploymentRequest for the handle, and raises the creation error.
C4_CreateFailureCompensatesBoth ==
    (CreateDeploymentFailed /\ Succeeded(CreateNarOp) /\ HandleReturned) =>
        /\ DeleteCalledFor(Val(custom_nar_configuration))
        /\ AbortAttemptedForHandle
        /\ raised = LastSagaCall.outcome
C4_Witness ==
    /\ CreateDeploymentFailed /\ Succeeded(CreateNarOp) /\ HandleReturned
    /\ raised.status = 500 /\ Called(DeleteOp) /\ Called(AbortOp)

SizeValidationFailed ==
    Failed /\ raised = DfExtensionError("uploadAsset") /\ ~Called("uploadAsset")
UploadCallFailed ==
    Failed /\ LastSagaCall.op = "uploadAsset" /\ LastSagaCall.outcome # Ok

\* C5 (as claimed): a size-validation failure does not trigger
\* abortDeploymentRequest, a failed upload call does.
C5_Original ==
    /\ SizeValidationFailed => ~Called(AbortOp)
    /\ UploadCallFailed => Called(AbortOp)

\* C5 (amended): a size-validation failure raised during the asset-upload
\* step triggers abortDeploymentRequest for the deployment request, exactly
\* as a failed upload call does; the error is re-raised afterwards.
C5_SizeFailureAbortsToo ==
    (SizeValidationFailed \/ UploadCallFailed) =>
        /\ calls[Len(calls)].op = AbortOp
        /\ calls[Len(calls)].payload["deploymentRequestCrn"] = deployment_request_crn
        /\ raised = TriggeringError
C5_Witness == SizeValidationFailed /\ HandleReturned /\ Called(AbortOp)

\* the assets of the request as received
RequestedAssets ==
    IF Has(request, "parameterGroups") THEN AllAssets(request["parameterGroups"]) ELSE <<>>
HasOversizedAsset ==
    \E i \in 1..Len(RequestedAssets) :
        /\ ~StatFails(RequestedAssets[i])
        /\ FileSize[RequestedAssets[i]] > MAX_ASSET_SIZE

\* C6: if any asset of any parameter group exceeds the size ceiling, the run
\* issues no upload call, no NAR call and no createDeployment call.
C6_OversizedAssetBlocksUploads ==
    HasOversizedAsset =>
        \A i \in 1..Len(calls) :
            calls[i].op \notin {"uploadAsset", "createDeployment"} \cup NarOps
C6_Witness ==
    /\ HasOversizedAsset /\ Failed
    /\ Len(RequestedAssets) > 1 /\ RequestedAssets[1] = PathSmall
    /\ raised = DfExtensionError("uploadAsset")

\* C7 (as claimed): when createCustomNarConfiguration fails with an error
\* other than a 409 conflict, the error reaches the caller unchanged and
\* abortDeploymentRequest has been attempted before.
C7_Claim ==
    (Failed /\ LastSagaCall.op = CreateNarOp /\ LastSagaCall.outcome # Ok) =>
        /\ raised = LastSagaCall.outcome
        /\ Called(AbortOp)

BothCleanUpsCalled == Called(AbortOp) /\ Called(DeleteOp)

\* C8 (as claimed): when both are undone, the NAR configuration is deleted
\* before the deployment request is aborted.
C8_Original ==
    \A i, j \in 1..Len(calls) :
        (calls[i].op = DeleteOp /\ calls[j].op = AbortOp) => i < j

\* C8 (amended): when both are undone, the deployment request is aborted
\* first and the NAR configuration is deleted after it (creation order, not
\* reverse order).
C8_AbortBeforeDelete ==
    \A i, j \in 1..Len(calls) :
        (calls[i].op = AbortOp /\ calls[j].op = DeleteOp) => i < j
C8_Witness == BothCleanUpsCalled /\ Failed

\* C9: deleteCustomNarConfiguration is called only after a successful
\* createCustomNarConfiguration or updateCustomNarConfiguration of the same
\* run; fetching the default configuration alone never leads to a delete.
C9_DeleteOnlyAfterCreateOrUpdate ==
    \A i \in 1..Len(calls) :
        calls[i].op = DeleteOp =>
            \E j \in 1..(i - 1) :
                calls[j].op \in {CreateNarOp, UpdateNarOp} /\ calls[j].outcome = Ok
C9_Witness == Called(DeleteOp) /\ Succeeded(DefaultNarOp) /\ Succeeded(UpdateNarOp)

\* C10: if environment resolution or token acquisition fails, the run ends
\* with that error and no clean-up call is issued.
C10_NoCompensationBeforeDetails ==
    (Failed /\ raised.op \in {ListOp, TokenOp}) =>
        /\ ~CompensationCalled
        /\ calls[Len(calls)].op = raised.op
C10_Witness == Failed /\ raised.op = TokenOp /\ HandleReturned /\ ~CompensationCalled

CallsOf(op) == SelectSeq(calls, LAMBDA c : c.op = op)
ConflictHit ==
    \E i \in 1..Len(calls) : calls[i].op = CreateNarOp /\ calls[i].outcome.status = 409
Credentials == {"username", "password", "storageLocation"}

\* C11: when createCustomNarConfiguration hits a 409 conflict,
\* getDefaultCustomNarConfiguration is called next; once that fetch has
\* returned, updateCustomNarConfiguration is called exactly once, and it
\* carries the crn and configurationVersion of the fetched default together
\* with the caller's username, password and storageLocation.
C11_ConflictAdoptsDefault ==
    /\ (ConflictHit /\ pc # "nar_default") => Called(DefaultNarOp)
    /\ (Succeeded(DefaultNarOp) /\ pc # "nar_update") => Len(CallsOf(UpdateNarOp)) = 1
    /\ Len(CallsOf(UpdateNarOp)) <= 1
    /\ \A i \in 1..Len(calls) :
        calls[i].op = UpdateNarOp =>
            /\ ConflictHit /\ ~IsNone(default_configuration)
            /\ calls[i].payload["crn"] = Val(default_configuration)["crn"]
            /\ calls[i].payload["configurationVersion"] =
                    Val(default_configuration)["configurationVersion"]
            /\ \A k \in Credentials :
                    calls[i].payload[k] = request["customNarConfiguration"][k]
C11_Witness ==
    /\ Succeeded(UpdateNarOp)
    /\ Val(default_configuration)["configurationVersion"] = 3
    /\ Val(default_configuration)["crn"] = "crn:nar:default"

\* C12: a 409 conflict of createCustomNarConfiguration never reaches the
\* caller; the call that follows it is getDefaultCustomNarConfiguration, and
\* after a successful fetch updateCustomNarConfiguration.
C12_ConflictAbsorbed ==
    /\ ~(raised.op = CreateNarOp /\ raised.status = 409)
    /\ \A i \in 1..Len(calls) :
        /\ (calls[i].op = CreateNarOp /\ calls[i].outcome.status = 409) =>
                IF i = Len(calls) THEN pc = "nar_default"
                ELSE calls[i + 1].op = DefaultNarOp
        /\ (calls[i].op = DefaultNarOp /\ calls[i].outcome = Ok) =>
                IF i = Len(calls) THEN pc = "nar_update"
                ELSE calls[i + 1].op = UpdateNarOp
C12_Witness == ConflictHit /\ pc = "done" /\ Succeeded(UpdateNarOp)

ForwardOps == {"initiateDeployment", ListOp, TokenOp, "getDeploymentRequestDetails"}
Uploads == CallsOf("uploadAsset")

\* C13: when an upload call fails, the uploads made before it all succeeded
\* and nothing undoes them: the one call after the failed upload is
\* abortDeploymentRequest, and the run issues no delete of an asset or of a
\* NAR configuration.
AnUploadFailed ==
    Failed /\ \E i \in 1..Len(calls) : calls[i].op = "uploadAsset" /\ calls[i].outcome # Ok
C13_UploadFailureOnlyAborts ==
    AnUploadFailed =>
        /\ \A i \in 1..Len(calls) : calls[i].op \in ForwardOps \cup {"uploadAsset", AbortOp}
        /\ Len(CallsOf(AbortOp)) = 1
        /\ calls[Len(calls)].op = AbortOp
        /\ calls[Len(calls) - 1].op = "uploadAsset"
        /\ \A k \in 1..(Len(Uploads) - 1) : Uploads[k].outcome = Ok
C13_Witness ==
    /\ AnUploadFailed /\ Len(Uploads) = 3
    /\ Uploads[1].outcome = Ok /\ Uploads[2].outcome = Ok

NarRequested == Has(request, "customNarConfiguration")

\* C14: a run whose request has no customNarConfiguration issues no create,
\* get-default, update or delete call for a NAR configuration, compensation
\* included, and its creation payload has no customNarConfigurationCrn.
C14_NoNarRequestNoNarCall ==
    ~NarRequested =>
        /\ \A i \in 1..Len(calls) :
            /\ calls[i].op \notin NarOps
            /\ calls[i].op = "createDeployment" =>
                    ~Has(calls[i].payload, "customNarConfigurationCrn")
        /\ ~Has(deployment_configuration, "customNarConfigurationCrn")
        /\ IsNone(custom_nar_configuration)
C14_Witness ==
    /\ ~NarRequested /\ Failed /\ Called(AbortOp)
    /\ LastSagaCall.op = "createDeployment"

\* the builder has run: deployment_configuration holds its output
Built == DOMAIN deployment_configuration # {}
CreatePayloads == {calls[i].payload : i \in {j \in 1..Len(calls) : calls[j].op = "createDeployment"}}
\* the builder output, as built and as sent
Configurations == IF Built THEN {deployment_configuration} \cup CreatePayloads ELSE {}
ScalingOn == TruthyBool(Get(request, "autoScalingEnabled"))

(***************************************************************************)
(* C15: when the request has autoScalingEnabled true, the configuration    *)
(* built from it has no staticNodeCount; when autoScalingEnabled is absent *)
(* or false, the configuration has staticNodeCount, equal to the supplied  *)
(* value or to 1 when none was supplied.                                   *)
(***************************************************************************)
C15_StaticNodeCountIffNotScaling ==
    \A cfg \in Configurations :
        IF ScalingOn
        THEN ~Has(cfg, "staticNodeCount")
        ELSE /\ Has(cfg, "staticNodeCount")
             /\ cfg["staticNodeCount"] = GetOr(request, "staticNodeCount", 1)
C15_Witness ==
    /\ ScalingOn /\ Has(request, "staticNodeCount")
    /\ Succeeded("createDeployment")
    /\ \A cfg \in CreatePayloads : ~Has(cfg, "staticNodeCount")

(***************************************************************************)
(* C16: the configuration has autoScaleMinNodes (autoScaleMaxNodes) exactly *)
(* when autoScalingEnabled is true and the request supplies that bound     *)
(* with a non-zero value, and then with that value; when the request has  *)
(* autoScalingEnabled false, the configuration has the flag, false, and    *)
(* neither bound, whatever bounds the request supplies.                    *)
(***************************************************************************)
BoundKeys == {"autoScaleMinNodes", "autoScaleMaxNodes"}
C16_BoundsOnlyWhenScalingAndNonZero ==
    \A cfg \in Configurations :
        /\ \A k \in BoundKeys :
            /\ Has(cfg, k) <=> (ScalingOn /\ Has(request, k) /\ request[k] # 0)
            /\ Has(cfg, k) => cfg[k] = request[k]
        /\ Get(request, "autoScalingEnabled") = Some(FALSE) =>
            /\ Has(cfg, "autoScalingEnabled") /\ cfg["autoScalingEnabled"] = FALSE
            /\ \A k \in BoundKeys : ~Has(cfg, k)
\* scenario B: scaling on, minimum 2, maximum 0
C16_Witness ==
    /\ ScalingOn
    /\ Get(request, "autoScaleMinNodes") = Some(2)
    /\ Get(request, "autoScaleMaxNodes") = Some(0)
    /\ Succeeded("createDeployment")
    /\ \A cfg \in CreatePayloads :
        /\ Has(cfg, "autoScaleMinNodes") /\ cfg["autoScaleMinNodes"] = 2
        /\ ~Has(cfg, "autoScaleMaxNodes")

(***************************************************************************)
(* C17: for the request that has only its required fields (no optional     *)
(* field, no parameter groups, no NAR configuration, no KPIs), the payload *)
(* of every createDeployment call has exactly the keys name,               *)
(* deploymentRequestCrn, configurationVersion, clusterSizeName,            *)
(* staticNodeCount and environmentCrn, with configurationVersion 0,        *)
(* clusterSizeName EXTRA_SMALL and staticNodeCount 1.                      *)
(***************************************************************************)
MinimalKeys == {"name", "deploymentRequestCrn", "configurationVersion",
                "clusterSizeName", "staticNodeCount", "environmentCrn"}
C17_MinimalRequestMinimalPayload ==
    request = BaseRequest =>
        \A cfg \in CreatePayloads :
            /\ DOMAIN cfg = MinimalKeys
            /\ cfg["name"] = request["deploymentName"]
            /\ cfg["deploymentRequestCrn"] = deployment_request_crn
            /\ cfg["configurationVersion"] = 0
            /\ cfg["clusterSizeName"] = "EXTRA_SMALL"
            /\ cfg["staticNodeCount"] = 1
            /\ cfg["environmentCrn"] = environment_crn
C17_Witness ==
    /\ request = BaseRequest
    /\ Succeeded("createDeployment")
    /\ ~IsNone(deployment_request_crn)
    /\ environment_crn = Some(EnvironmentCrn)

HasTolerance(kpi) ==
    TruthyDict(Get(kpi, "alert")) /\ TruthyDict(Get(kpi["alert"], "frequencyTolerance"))
UnitOf(kpi) == kpi["alert"]["frequencyTolerance"]["unit"]

(***************************************************************************)
(* C18: the KPI list of the configuration is _process_kpis of the          *)
(* requested list, and applying _process_kpis to it again gives the same   *)
(* list; normalisation leaves every unit id as it was requested.           *)
(***************************************************************************)
C18_ProcessKpisIdempotent ==
    \A cfg \in Configurations :
        Has(cfg, "kpis") =>
            /\ cfg["kpis"] = _process_kpis(request["kpis"])
            /\ _process_kpis(cfg["kpis"]) = cfg["kpis"]
            /\ Len(cfg["kpis"]) = Len(request["kpis"])
            /\ \A i \in 1..Len(cfg["kpis"]) :
                HasTolerance(request["kpis"][i]) =>
                    UnitOf(cfg["kpis"][i])["id"] = UnitOf(request["kpis"][i])["id"]
C18_Witness ==
    /\ Succeeded("createDeployment")
    /\ \E cfg \in CreatePayloads :
        /\ Has(cfg, "kpis") /\ Len(cfg["kpis"]) = 2
        /\ HasTolerance(cfg["kpis"][2])
        /\ ~HasTolerance(cfg["kpis"][1])
        /\ UnitOf(cfg["kpis"][2]) =
              [id |-> <<"H", "O", "U", "R", "S">>, label |-> <<"H", "o", "u", "r", "s">>,
               abbreviation |-> <<"h">>]

\* pass 2 of _upload_assets has returned
UploadPassComplete == pc = "configure" \/ Built
GroupsOf(p) == GetOr(p, "parameterGroups", <<>>)

(***************************************************************************)
(* C19: once the upload pass has completed, every parameter that was       *)
(* requested with asset paths holds as many references as paths, in the    *)
(* same order, each with version "0" and with path and name that join to   *)
(* the expanded requested path; every other parameter, and the groups and  *)
(* their names, are as requested.                                          *)
(***************************************************************************)
C19_ReferencesReplacedInOrder ==
    UploadPassComplete =>
        /\ Len(GroupsOf(parameters)) = Len(GroupsOf(request))
        /\ \A g \in 1..Len(GroupsOf(request)) :
            LET old == GroupsOf(request)[g]
                new == GroupsOf(parameters)[g]
            IN  /\ new["name"] = old["name"]
                /\ Len(new["parameters"]) = Len(old["parameters"])
                /\ \A i \in 1..Len(old["parameters"]) :
                    LET was == old["parameters"][i]
                        is == new["parameters"][i]
                    IN  IF HasAssets(was)
                        THEN /\ is["name"] = was["name"]
                             /\ Len(is["assetReferences"]) = Len(was["assetReferences"])
                             /\ \A k \in 1..Len(was["assetReferences"]) :
                                 LET ref == is["assetReferences"][k]
                                 IN  /\ DOMAIN ref = {"name", "path", "version"}
                                     /\ ref["version"] = "0"
                                     /\ ref["path"] \o <<ref["name"]>> =
                                          get_expanded_file_path(was["assetReferences"][k])
                        ELSE is = was
C19_Witness ==
    /\ Succeeded("createDeployment")
    /\ GroupsOf(request) # <<>>
    /\ Get(request["parameterGroups"][1]["parameters"][1], "assetReferences")
          = Some(<<PathSmall, PathLimit>>)
    /\ parameters["parameterGroups"][1]["parameters"][1]["assetReferences"] =
          <<[name |-> "a.nar", path |-> <<"/", "opt">>, version |-> "0"],
            [name |-> "b.jar", path |-> HomeDir, version |-> "0"]>>

DetailsOp == "getDeploymentRequestDetails"
\* the calls of _process_custom_nar_configuration (the delete is compensation)
NarStepOps == {CreateNarOp, DefaultNarOp, UpdateNarOp}
At(ops) == {i \in 1..Len(calls) : calls[i].op \in ops}
OnceOps == {"initiateDeployment", ListOp, TokenOp, DetailsOp, "createDeployment"} \cup NarStepOps
EnvironmentResolved == Succeeded(ListOp) /\ ~IsNone(environment_crn)

(***************************************************************************)
(* C20: in the calls of one run, each of initiate, listing, token, details,*)
(* the three NAR steps and createDeployment occurs at most once; the token *)
(* is acquired exactly once when the environment has been resolved,        *)
(* directly after the successful listing, and the details are requested    *)
(* directly after it; the details precede every upload, every upload       *)
(* precedes every NAR step, and every upload and NAR step precedes         *)
(* createDeployment.                                                       *)
(***************************************************************************)
C20_ForwardStepsInSequence ==
    /\ \A op \in OnceOps : Cardinality(At({op})) <= 1
    /\ (EnvironmentResolved /\ pc # "token") => Cardinality(At({TokenOp})) = 1
    /\ \A i \in At({TokenOp}) :
        /\ EnvironmentResolved
        /\ i > 1 /\ calls[i - 1].op = ListOp /\ calls[i - 1].outcome = Ok
    /\ \A i \in At({DetailsOp}) :
        i > 1 /\ calls[i - 1].op = TokenOp /\ calls[i - 1].outcome = Ok
    /\ \A i \in At({"uploadAsset"}) :
        \E j \in At({DetailsOp}) : j < i /\ calls[j].outcome = Ok
    /\ \A i \in At({"uploadAsset"}) : \A j \in At(NarStepOps) : i < j
    /\ \A i \in At({"uploadAsset"} \cup NarStepOps) : \A j \in At({"createDeployment"}) : i < j
\* two uploads, then create (409), getDefault, update, then createDeployment
C20_Witness ==
    /\ Succeeded("createDeployment")
    /\ Cardinality(At({"uploadAsset"})) = 2
    /\ Cardinality(At(NarStepOps)) = 3
    /\ Cardinality(At({TokenOp})) = 1

\* _process_kpis has run on the requested list: it returned or it raised
KpisProcessed == Has(request, "kpis") /\ (Built \/ raised.class = "KeyError")
MissingField(kpi) == ~HasTolerance(kpi) \/ KpiError(kpi) # NoError

\* C21 (as claimed): _process_kpis raises on no KPI list; a KPI whose alert,
\* frequencyTolerance, unit or unit id is absent is left as requested, and
\* every other KPI has its label and abbreviation set.
C21_Claim ==
    KpisProcessed =>
        /\ raised.class # "KeyError"
        /\ \A i \in 1..Len(request["kpis"]) :
            IF MissingField(request["kpis"][i])
            THEN parameters["kpis"][i] = request["kpis"][i]
            ELSE {"label", "abbreviation"} \subseteq DOMAIN UnitOf(parameters["kpis"][i])

(***************************************************************************)
(* C22: in the calls of one run, createDeployment, abortDeploymentRequest  *)
(* and deleteCustomNarConfiguration each occur at most once, and no        *)
(* createDeployment call comes after an abortDeploymentRequest call.       *)
(***************************************************************************)
C22_CreateAndCompensationAtMostOnce ==
    /\ \A op \in {"createDeployment", AbortOp, DeleteOp} : Cardinality(At({op})) <= 1
    /\ \A i \in At({AbortOp}) : \A j \in At({"createDeployment"}) : j < i
\* an upload failed and the request was aborted: the run ends there
C22_Witness ==
    /\ AnUploadFailed /\ Failed
    /\ Cardinality(At({AbortOp})) = 1
    /\ calls[Len(calls)].outcome # Ok
    /\ ~Called("createDeployment")

(***************************************************************************)
(* C23: when createDeployment has succeeded, the run has returned its      *)
(* response, no abortDeploymentRequest and no deleteCustomNarConfiguration *)
(* call was issued, and the createDeployment call is the last call.        *)
(***************************************************************************)
C23_SuccessWithoutCompensation ==
    Succeeded("createDeployment") =>
        /\ pc = "done" /\ raised = NoError /\ ~IsNone(response)
        /\ At(CompensationOps) = {}
        /\ calls[Len(calls)].op = "createDeployment"
C23_Witness ==
    /\ Succeeded("createDeployment")
    /\ Succeeded(CreateNarOp)
    /\ Succeeded("uploadAsset")
    /\ pc = "done"

ParameterAt(p, q) == GroupsOf(p)[q[1]]["parameters"][q[2]]
RequestedPositions == AssetPositions(GroupsOf(request))
RECURSIVE AssetCount(_)
\* the number of assets requested at the positions of S
AssetCount(S) ==
    IF S = {} THEN 0
    ELSE LET q == CHOOSE r \in S : TRUE
         IN  Len(ParameterAt(request, q)["assetReferences"]) + AssetCount(S \ {q})
Uploaded == Cardinality({i \in At({"uploadAsset"}) : calls[i].outcome = Ok})
\* every asset of the parameter at q, and of those before it, is uploaded
UploadedThrough(q) ==
    Uploaded >= AssetCount({r \in RequestedPositions : r = q \/ PosBefore(r, q)})

(***************************************************************************)
(* C24: in every state, a parameter requested with assets holds either     *)
(* the requested local paths, all of them, or one structured reference per *)
(* path, all of them: it holds the references exactly when the uploads of  *)
(* all its assets, and of all parameters before it, have succeeded, and    *)
(* the local paths otherwise.                                              *)
(***************************************************************************)
C24_ReferencesNeverMixed ==
    \A q \in RequestedPositions :
        LET was == ParameterAt(request, q)["assetReferences"]
            is == ParameterAt(parameters, q)["assetReferences"]
        IN  /\ Len(is) = Len(was)
            /\ IF UploadedThrough(q)
               THEN \A k \in 1..Len(is) : is[k]["version"] = INITIAL_ASSET_VERSION
               ELSE is = was
\* the upload of the second parameter failed: the first is rewritten, the
\* second still holds its path
C24_Witness ==
    /\ AnUploadFailed /\ Failed
    /\ Uploaded = 1
    /\ \E q \in RequestedPositions : \E r \in RequestedPositions :
        /\ PosBefore(q, r)
        /\ UploadedThrough(q) /\ ~UploadedThrough(r)
        /\ ParameterAt(parameters, q)["assetReferences"][1]["name"] = "a.nar"
        /\ ParameterAt(parameters, r)["assetReferences"] = <<PathLimit>>

\* the abort call of _tear_down failed with a ClientError
TearDownAbortFailed ==
    \E i \in At({AbortOp}) :
        /\ i > 1 /\ calls[i - 1].op = "createDeployment"
        /\ calls[i].outcome.class = "ClientError"

(***************************************************************************)
(* C25: when the abortDeploymentRequest call of _tear_down fails with a    *)
(* ClientError and the run holds a NAR configuration it created or         *)
(* updated, the call that follows the abort is deleteCustomNarConfiguration *)
(* for that configuration, and the failed abort is logged.                 *)
(***************************************************************************)
C25_DeleteAttemptedAfterFailedAbort ==
    (TearDownAbortFailed /\ ~IsNone(custom_nar_configuration) /\ pc # "tear_down_delete") =>
        \E i \in At({AbortOp}) :
            /\ i < Len(calls)
            /\ calls[i + 1].op = DeleteOp
            /\ calls[i + 1].payload["customNarConfigurationCrn"] =
                  Val(custom_nar_configuration)["crn"]
            /\ \E l \in 1..Len(log) : log[l].status = calls[i].outcome.status
C25_Witness ==
    /\ TearDownAbortFailed /\ Failed
    /\ Succeeded(UpdateNarOp)
    /\ calls[Len(calls)].op = DeleteOp /\ calls[Len(calls)].outcome = Ok
    /\ calls[Len(calls) - 1].outcome = ClientError(500, AbortOp)

\* the 409 branch ran to its end and createDeployment then failed
AdoptedThenCreateFailed ==
    /\ Failed /\ ConflictHit /\ Succeeded(UpdateNarOp)
    /\ \E i \in At({"createDeployment"}) : calls[i].outcome # Ok

(***************************************************************************)
(* C26: when createCustomNarConfiguration met a 409, the default           *)
(* configuration was fetched and updated, and createDeployment then        *)
(* failed, the run has called deleteCustomNarConfiguration with the crn    *)
(* and configurationVersion that the update returned, the crn it also sent *)
(* to createDeployment.                                                    *)
(***************************************************************************)
C26_AdoptedDefaultIsDeleted ==
    AdoptedThenCreateFailed =>
        /\ ~IsNone(custom_nar_configuration)
        /\ DeleteCalledFor(Val(custom_nar_configuration))
        /\ \A cfg \in CreatePayloads :
            cfg["customNarConfigurationCrn"] = Val(custom_nar_configuration)["crn"]
\* the configuration deleted is the one that was fetched as the default
C26_Witness ==
    /\ AdoptedThenCreateFailed
    /\ \E i \in At({DeleteOp}) :
        /\ calls[i].outcome = Ok
        /\ calls[i].payload["customNarConfigurationCrn"] = Val(default_configuration)["crn"]
        /\ calls[i].payload["configurationVersion"] =
              Val(default_configuration)["configurationVersion"]

====
